---- MODULE Spec2Model ----
(***************************************************************************)
(* A model of @sardonyxwt/event-bus (src/src/index.ts): one EventBusImpl   *)
(* instance, the process-wide DevTool hook object, and the call stack of a  *)
(* publish call with the listeners it invokes.                              *)
(*                                                                          *)
(* JavaScript strings are modelled as sequences of one-character strings,   *)
(* so that charAt, toUpperCase, slice and concatenation are computed.       *)
(***************************************************************************)
EXTENDS Integers, Sequences, FiniteSets, TLC

(***************************************************************************)
(* Bounds of the model.                                                     *)
(***************************************************************************)
MaxPublish == 3      \* publish calls in one behaviour of Spec
MaxListeners == 2    \* subscribe calls that return in one behaviour of Spec
MaxEvents == 2       \* registerEvent calls that return, in SpecApi
ApiMaxPublish == 1   \* publish calls in one behaviour of SpecApi
ApiMaxListeners == 1 \* subscribe calls that return, in SpecApi
MaxBuses == 3        \* instances constructed in one behaviour of SpecRegistry

(***************************************************************************)
(* Strings.                                                                 *)
(***************************************************************************)
STR_on == <<"o", "n">>
STR_publish == <<"p", "u", "b", "l", "i", "s", "h">>
STR_lock == <<"l", "o", "c", "k">>

\* The event names callers pass: the empty string, a lower-case name, the
\* same name capitalized, an accessor name derived from it, a method name.
EventNames ==
    { <<>>, <<"a">>, <<"A">>, <<"o", "n", "A">>, STR_lock }

\* The event names callers publish and subscribe to.
PublishNames == { <<"a">>, <<"A">> }

\* The eventNames arrays callers pass to subscribe.
ScopeArrays == { <<>>, << <<"a">> >>, << <<"A">>, <<"a">> >> }

\* String.prototype.toUpperCase on one character.
toUpperCase(c) ==
    CASE c = "a" -> "A"
      [] c = "o" -> "O"
      [] c = "l" -> "L"
      [] OTHER -> c

\* Array.prototype.findIndex with the predicate (it) => it === x; 0-based,
\* -1 when absent.
RECURSIVE findIndexFrom(_, _, _)
findIndexFrom(arr, x, i) ==
    IF i > Len(arr) THEN -1
    ELSE IF arr[i] = x THEN i - 1
    ELSE findIndexFrom(arr, x, i + 1)

findIndex(arr, x) == findIndexFrom(arr, x, 1)

(***************************************************************************)
(* The EventBusImpl instance.  `this` is the record of its fields; `props`  *)
(* are the properties registerEvent attaches to the instance.               *)
(***************************************************************************)
BusName == "B1"

\* The names for which `key in this` is true on a fresh instance: the own
\* fields, the members of EventBusImpl.prototype and of Object.prototype.
ClassMembers ==
    { <<"n","a","m","e">>,
      <<"i","s","I","m","m","u","t","a","b","i","l","i","t","y","E","n","a","b","l","e","d">>,
      <<"_","i","s","F","r","o","z","e","n">>,
      <<"_","e","v","e","n","t","s">>,
      <<"_","q","u","e","u","e">>,
      <<"_","l","i","s","t","e","n","e","r","s">>,
      <<"c","o","n","s","t","r","u","c","t","o","r">>,
      <<"i","s","L","o","c","k","e","d">>,
      <<"s","u","p","p","o","r","t","E","v","e","n","t","s">>,
      <<"r","e","g","i","s","t","e","r","E","v","e","n","t">>,
      STR_publish,
      <<"s","u","b","s","c","r","i","b","e">>,
      <<"u","n","s","u","b","s","c","r","i","b","e">>,
      STR_lock,
      <<"i","s","E","v","e","n","t","P","r","e","s","e","n","t">>,
      <<"t","o","S","t","r","i","n","g">>,
      <<"v","a","l","u","e","O","f">>,
      <<"h","a","s","O","w","n","P","r","o","p","e","r","t","y">> }

\* new EventBusImpl({name, isImmutabilityEnabled})
EventBusImpl(name, isImmutabilityEnabled) ==
    [ name |-> name,
      isImmutabilityEnabled |-> isImmutabilityEnabled,
      _isFrozen |-> FALSE,
      _events |-> <<>>,
      _queue |-> <<>>,
      _listeners |-> <<>>,
      props |-> <<>> ]

\* get isLocked()
isLocked(this) == this._isFrozen

\* get supportEvents(): a copy of _events
supportEvents(this) == [i \in 1..Len(this._events) |-> this._events[i]]

\* private isEventPresent(eventName)
isEventPresent(this, eventName) == findIndex(this._events, eventName) # -1

\* Faulty variant: only the properties registerEvent attached are seen.
InThis_AccessorsOnly(this, key) == key \in DOMAIN this.props

\* eventName in this
InThis(this, key) == key \in ClassMembers \/ key \in DOMAIN this.props

\* eventName.charAt(0).toUpperCase() + eventName.slice(1)
capitalizeFirstLetterEventName(eventName) ==
    IF eventName = <<>> THEN <<>>
    ELSE <<toUpperCase(eventName[1])>> \o Tail(eventName)

subscriberMacroName(eventName) ==
    STR_on \o capitalizeFirstLetterEventName(eventName)

dispatcherMacroName(eventName) ==
    STR_publish \o capitalizeFirstLetterEventName(eventName)

\* this[key] = value
SetProp(props, key, value) ==
    [k \in DOMAIN props \cup {key} |-> IF k = key THEN value ELSE props[k]]

\* Faulty variant: the duplicate check is missing.
registerEvent_NoDuplicateCheck(this, eventName) ==
    IF this._isFrozen THEN [threw |-> TRUE, this |-> this]
    ELSE IF InThis(this, eventName)
    THEN [threw |-> TRUE, this |-> this]
    ELSE [threw |-> FALSE,
          this |-> [this EXCEPT
              !._events = Append(@, eventName),
              !.props = SetProp(
                  SetProp(@, subscriberMacroName(eventName),
                          [macro |-> "subscribe", eventName |-> eventName]),
                  dispatcherMacroName(eventName),
                  [macro |-> "publish", eventName |-> eventName])]]

\* Faulty variant: the name is pushed before it is checked.
registerEvent_PushFirst(this, eventName) ==
    IF this._isFrozen THEN [threw |-> TRUE, this |-> this]
    ELSE IF isEventPresent(this, eventName) \/ InThis(this, eventName)
    THEN [threw |-> TRUE,
          this |-> [this EXCEPT !._events = Append(@, eventName)]]
    ELSE [threw |-> FALSE,
          this |-> [this EXCEPT
              !._events = Append(@, eventName),
              !.props = SetProp(
                  SetProp(@, subscriberMacroName(eventName),
                          [macro |-> "subscribe", eventName |-> eventName]),
                  dispatcherMacroName(eventName),
                  [macro |-> "publish", eventName |-> eventName])]]

\* registerEvent(eventName): the instance afterwards and whether it threw.
registerEvent(this, eventName) ==
    IF this._isFrozen THEN [threw |-> TRUE, this |-> this]
    ELSE IF isEventPresent(this, eventName) \/ InThis(this, eventName)
    THEN [threw |-> TRUE, this |-> this]
    ELSE [threw |-> FALSE,
          this |-> [this EXCEPT
              !._events = Append(@, eventName),
              !.props = SetProp(
                  SetProp(@, subscriberMacroName(eventName),
                          [macro |-> "subscribe", eventName |-> eventName]),
                  dispatcherMacroName(eventName),
                  [macro |-> "publish", eventName |-> eventName])]]

\* Faulty variant: lock() toggles the flag.
lock_Toggle(this) == [this EXCEPT !._isFrozen = ~@]

\* lock()
lock(this) == [this EXCEPT !._isFrozen = TRUE]

\* Faulty variant: a locked bus refuses new listeners too.
subscribe_RefusedWhenLocked(this, listenerId, eventNames) ==
    IF this._isFrozen
       \/ \E i \in 1..Len(eventNames) : ~isEventPresent(this, eventNames[i])
    THEN [threw |-> TRUE, this |-> this]
    ELSE [threw |-> FALSE,
          this |-> [this EXCEPT !._listeners =
              [k \in DOMAIN @ \cup {listenerId} |->
                  IF k = listenerId
                  THEN [accurate |-> Len(eventNames) # 0,
                        eventNames |-> eventNames]
                  ELSE @[k]]]]

\* Faulty variant: only the first event name is checked.
subscribe_FirstNameOnly(this, listenerId, eventNames) ==
    IF eventNames # <<>> /\ ~isEventPresent(this, eventNames[1])
    THEN [threw |-> TRUE, this |-> this]
    ELSE [threw |-> FALSE,
          this |-> [this EXCEPT !._listeners =
              [k \in DOMAIN @ \cup {listenerId} |->
                  IF k = listenerId
                  THEN [accurate |-> Len(eventNames) # 0,
                        eventNames |-> eventNames]
                  ELSE @[k]]]]

\* Faulty variant: Map.prototype.clear instead of delete.
unsubscribe_Clear(this, id) ==
    [result |-> id \in DOMAIN this._listeners,
     this |-> [this EXCEPT !._listeners =
                  IF id \in DOMAIN @ THEN <<>> ELSE @]]

\* Faulty variant: the listener is reported removed but stays in the map.
unsubscribe_NoDelete(this, id) ==
    [result |-> id \in DOMAIN this._listeners, this |-> this]

\* subscribe(listener, eventNames): the eventNames.forEach check, then
\* _listeners.set(listenerId, eventNames.length === 0 ? listener
\* : accurateListener).  The Map keeps insertion order; ids are issued in
\* increasing order and never reused, so the order of the ids is the
\* insertion order.
subscribe(this, listenerId, eventNames) ==
    IF \E i \in 1..Len(eventNames) : ~isEventPresent(this, eventNames[i])
    THEN [threw |-> TRUE, this |-> this]
    ELSE [threw |-> FALSE,
          this |-> [this EXCEPT !._listeners =
              [k \in DOMAIN @ \cup {listenerId} |->
                  IF k = listenerId
                  THEN [accurate |-> Len(eventNames) # 0,
                        eventNames |-> eventNames]
                  ELSE @[k]]]]

\* unsubscribe(id): Map.prototype.delete
unsubscribe(this, id) ==
    [result |-> id \in DOMAIN this._listeners,
     this |-> [this EXCEPT !._listeners =
                  [k \in DOMAIN @ \ {id} |-> @[k]]]]

\* Faulty variant: the index is tested for truthiness, so index 0 counts as
\* absent.
isActionPresentInScope_Truthy(eventNames, event) ==
    findIndex(eventNames, event.eventName) > 0

\* accurateListener: isActionPresentInScope
isActionPresentInScope(eventNames, event) ==
    findIndex(eventNames, event.eventName) # -1

\* Whether the function stored under a listener id calls the subscriber's
\* callback for the event.
CallsListener(entry, event) ==
    IF entry.accurate
    THEN isActionPresentInScope(entry.eventNames, event)
    ELSE TRUE

\* Faulty variant: every publish call runs its task at once.
IsFirstInQuery_Always(this) == TRUE

\* const isFirstInQuery = this._queue.length === 0
IsFirstInQuery(this) == Len(this._queue) = 0

\* Faulty variant: the length is compared with 1.
HasNext_OffByOne(this) == Len(this._queue) > 1

\* if (this._queue.length > 0): there is a next task to run
HasNext(this) == Len(this._queue) > 0

\* Faulty variant: unshift instead of push.
QueuePush_Front(this, task) == [this EXCEPT !._queue = <<task>> \o @]
\* Faulty variant: a task for a name that is not registered is dropped.
QueuePush_KnownOnly(this, task) ==
    IF isEventPresent(this, task.eventName)
    THEN [this EXCEPT !._queue = Append(@, task)]
    ELSE this

\* this._queue.push(eventDispatcher)
QueuePush(this, task) == [this EXCEPT !._queue = Append(@, task)]

\* this._queue.shift()
QueueShift(this) ==
    [this EXCEPT !._queue = IF @ = <<>> THEN <<>> ELSE Tail(@)]

\* Faulty variant: the event is built from the publish call made last, not
\* from the call the task belongs to.
MakeEvent_Latest(this, task) ==
    [eventBusName |-> this.name,
     eventName |-> this._queue[Len(this._queue)].eventName,
     data |-> this._queue[Len(this._queue)].data]

\* The event a delivery task builds.
MakeEvent(this, task) ==
    [eventBusName |-> this.name,
     eventName |-> task.eventName,
     data |-> task.data]
\* Faulty variant: the entries are visited from the one added last to the
\* one added first.
NextEntry_NewestFirst(this, visited) ==
    LET rest == {k \in DOMAIN this._listeners : visited = 0 \/ k < visited}
    IN IF rest = {} THEN 0
       ELSE CHOOSE k \in rest : \A j \in rest : k >= j

\* Map.prototype.forEach: the next entry after the one visited last
\* (0 before the first), or 0 when the iteration is over.
NextEntry(this, visited) ==
    LET rest == {k \in DOMAIN this._listeners : k > visited}
    IN IF rest = {} THEN 0
       ELSE CHOOSE k \in rest : \A j \in rest : k <= j

(***************************************************************************)
(* Payloads.  A value is a record of its kind, of whether Object.freeze     *)
(* has been applied to it and of the values of its own properties.          *)
(***************************************************************************)
Primitive(kind) == [kind |-> kind, frozen |-> FALSE, props |-> <<>>]

Object(frozen, props) == [kind |-> "object", frozen |-> frozen, props |-> props]

\* The number every publish call of Spec, SpecApi and SpecDevTool passes.
NumberValue == Primitive("number")

\* The payloads callers pass in SpecFreeze: a number, null, undefined, an
\* empty object, an object holding a number, null and an object, and the
\* latter after the caller applied Object.freeze to it (not to its child).
Payloads ==
    { NumberValue, Primitive("null"), Primitive("undefined"),
      Object(FALSE, <<>>),
      Object(FALSE, <<NumberValue, Primitive("null"), Object(FALSE, <<>>)>>),
      Object(TRUE, <<NumberValue, Primitive("null"), Object(FALSE, <<>>)>>) }

\* typeof value
typeof(value) ==
    CASE value.kind = "null" -> "object"
      [] OTHER -> value.kind

\* !!value; the numbers published are not 0.
Truthy(value) == value.kind \in {"number", "object"}

\* Faulty variant: Object.freeze alone.
deepFreeze_Shallow(obj) == [obj EXCEPT !.frozen = TRUE]

\* deepFreeze(obj) of @sardonyxwt/utils, as bundled: the own properties that
\* are non-null objects first, then Object.freeze(obj).
RECURSIVE deepFreeze(_)
deepFreeze(obj) ==
    [obj EXCEPT
        !.props = [i \in DOMAIN obj.props |->
                     IF typeof(obj.props[i]) = "object"
                        /\ obj.props[i].kind # "null"
                     THEN deepFreeze(obj.props[i])
                     ELSE obj.props[i]],
        !.frozen = TRUE]

\* Faulty variant: the payload is frozen on every bus.
FreezesPayload_Always(this, data) == Truthy(data) /\ typeof(data) = "object"

\* this.isImmutabilityEnabled && !!data && typeof data === 'object'
FreezesPayload(this, data) ==
    this.isImmutabilityEnabled /\ Truthy(data) /\ typeof(data) = "object"

(***************************************************************************)
(* The registry: the module-level Map eventBuses.                           *)
(***************************************************************************)
\* The names callers give to createEventBus; Undefined when they give none.
Undefined == "undefined"
ExplicitNames == {"B1", "B2"}

\* generateEventBusName(): `EventBus:${uuid}:${index}`
GeneratedName(index) ==
    CASE index = 1 -> "EventBus:uuid:1"
      [] index = 2 -> "EventBus:uuid:2"
      [] index = 3 -> "EventBus:uuid:3"
      [] index = 4 -> "EventBus:uuid:4"
      [] OTHER -> "EventBus:uuid:n"

\* Faulty variant: the uniqueness check never finds the name.
isEventBusExist_Never(registry, eventBusName) == FALSE

\* isEventBusExist(eventBusName): eventBuses.has
isEventBusExist(registry, eventBusName) == eventBusName \in DOMAIN registry

\* getEventBus(eventBusName): eventBuses.get; 0 stands for undefined, the
\* instances being numbered from 1.
getEventBus(registry, eventBusName) ==
    IF eventBusName \in DOMAIN registry THEN registry[eventBusName] ELSE 0

\* createEventBus({name}) given the registry, the DevTool hooks and the
\* number of instances constructed so far: whether it threw, the registry
\* afterwards and whether onCreate was called.
createEventBus(registry, tool, instances, name) ==
    IF isEventBusExist(registry, name)
    THEN [threw |-> TRUE, eventBuses |-> registry, notified |-> FALSE]
    ELSE [threw |-> tool.onCreate = "throws",
          eventBuses |-> [n \in DOMAIN registry \cup {name} |->
                            IF n = name THEN instances + 1 ELSE registry[n]],
          notified |-> TRUE]

(***************************************************************************)
(* State.                                                                   *)
(***************************************************************************)
VARIABLES
    bus,            \* the EventBusImpl instance
    devTool,        \* eventBusDevTool: what each hook does when called
    listenerIndex,  \* the counter of generateEventBusListenerId
    pc,             \* where the thread of control is (see below)
    run,            \* the delivery task (eventDispatcher closure) executing
    visited,        \* _listeners.forEach: the id of the entry visited last
    \* Observations of the run, read by the properties only.
    pubCount,       \* publish calls made so far
    pending,        \* event names of the publish calls not yet delivered
    unknown,        \* those of them whose name was not in supportEvents
                    \* when publish was called
    nested,         \* publish calls callbacks made since the outermost
                    \* publish call began
    ret,            \* how the latest call other than publish ended, in the
                    \* specifications that record it
    registered,     \* names of the registerEvent calls that returned
    hookCount,      \* onEvent notifications so far
    atStart,        \* the listener ids present when the task started
    calls,          \* callback invocations of the task executing
    errors,         \* onEventListenerError notifications of that task
    doneCount,      \* delivery tasks that ran to their queue.shift()
    removed,        \* listener ids for which unsubscribe returned true
    scopes,         \* the eventNames each listener of the map was
                    \* subscribed with
    \* The module-level registry and the payloads.
    eventBuses,     \* the Map eventBuses: bus name -> instance, the n-th
                    \* EventBusImpl constructed being n
    created,        \* names of the createEventBus calls that returned
    onCreateCount,  \* onCreate notifications so far
    busNameIndex,   \* the counter of generateEventBusName
    heap,           \* the payloads of the publications not yet delivered
    \* The other instances of EventBusImpl.
    others,         \* the buses besides `bus` that callers operate
    issuedElsewhere \* the listener ids handed out by their subscribe

busVars == <<bus, devTool, listenerIndex>>
stackVars == <<pc, run, visited>>
taskObs == <<atStart, calls, errors>>
subObs == <<removed, scopes>>
registryVars == <<eventBuses, created, onCreateCount, busNameIndex>>
otherVars == <<others, issuedElsewhere>>
vars == <<bus, devTool, listenerIndex, pc, run, visited, pubCount, pending,
          unknown, nested, ret, registered, hookCount, atStart, calls, errors,
          doneCount, removed, scopes, eventBuses, created, onCreateCount,
          busNameIndex, heap, others, issuedElsewhere>>

\* pc = "idle"      no call of the API is executing;
\*      "task"      an eventDispatcher is about to run its body;
\*      "forEach"   it is inside _listeners.forEach, between two entries;
\*      "listener"  a subscriber's callback is running (entry `visited`).
\* The API is called from outside ("idle") or by the callback running.
CallerRuns == pc \in {"idle", "listener"}

NoTask == [eventName |-> <<>>, data |-> 0]

\* The default eventBusDevTool: every hook is () => null.
DefaultDevTool ==
    [onCreate |-> "null", onEvent |-> "null", onEventListenerError |-> "null"]

\* What a hook installed by setEventBusDevTool may do.
HookBehaviours == {"null", "throws"}

\* The Partial<EventBusDevTool> objects passed to setEventBusDevTool.
DevToolPartials ==
    UNION { [keys -> HookBehaviours] :
            keys \in SUBSET {"onEvent", "onEventListenerError"} }

\* The state once createEventBus has returned `this` and then each of
\* `those`.
InitBuses(this, those) ==
    /\ bus = this
    /\ devTool = DefaultDevTool
    /\ listenerIndex = 0
    /\ pc = "idle"
    /\ run = NoTask
    /\ visited = 0
    /\ pubCount = 0
    /\ pending = <<>>
    /\ unknown = {}
    /\ nested = 0
    /\ ret = [outcome |-> "createEventBus", tick |-> 0, arg |-> <<>>,
              value |-> <<>>]
    /\ registered = <<>>
    /\ hookCount = 0
    /\ atStart = {}
    /\ calls = <<>>
    /\ errors = <<>>
    /\ doneCount = 0
    /\ removed = {}
    /\ scopes = <<>>
    /\ eventBuses = [name \in {this.name} \cup
                                 {those[i].name : i \in DOMAIN those} |->
                        IF name = this.name THEN 1
                        ELSE 1 + CHOOSE i \in DOMAIN those :
                                    those[i].name = name]
    /\ created = DOMAIN eventBuses
    /\ onCreateCount = 1 + Len(those)
    /\ busNameIndex = 0
    /\ heap = <<>>
    /\ others = those
    /\ issuedElsewhere = {}

\* The state once createEventBus({name: BusName}) has returned `this`.
InitWith(this) == InitBuses(this, <<>>)

Init == InitWith(EventBusImpl(BusName, FALSE))

(***************************************************************************)
(* The API, called from outside or by a running callback.                   *)
(***************************************************************************)
\* How a call ended is kept in ret, with the argument where the properties
\* read it; tick tells two calls that ended alike apart.
\* What a call returns, where the properties read it: nothing (undefined)
\* is the empty tuple, and the handle subscribe returns,
\* Object.assign(() => this.unsubscribe(listenerId), {listenerId}), is the
\* tuple of the id it carries and unsubscribes.
NoValue == <<>>

SubscribeHandle(listenerId) == <<listenerId>>

RecordValue(outcome, arg, value) ==
    ret' = [outcome |-> outcome, tick |-> 1 - ret.tick, arg |-> arg,
            value |-> value]

RecordArg(outcome, arg) == RecordValue(outcome, arg, NoValue)

Record(outcome) == RecordArg(outcome, <<>>)

RegisterEvent(eventName) ==
    /\ CallerRuns
    /\ LET r == registerEvent(bus, eventName)
       IN /\ bus' = r.this
          /\ registered' = IF r.threw THEN registered
                           ELSE Append(registered, eventName)
    /\ UNCHANGED <<devTool, listenerIndex, stackVars, pubCount, pending,
                   unknown, nested, hookCount, taskObs, doneCount, subObs,
                   registryVars, otherVars, heap>>

Lock ==
    /\ CallerRuns
    /\ bus' = lock(bus)
    /\ UNCHANGED <<devTool, listenerIndex, stackVars, pubCount, pending,
                   unknown, nested, registered, hookCount, taskObs, doneCount,
                   subObs, registryVars, otherVars, heap>>

\* The id is generated after the eventNames check, so a failing call does
\* not consume one.
Subscribe(eventNames) ==
    /\ CallerRuns
    /\ LET listenerId == listenerIndex + 1
           r == subscribe(bus, listenerId, eventNames)
       IN /\ bus' = r.this
          /\ listenerIndex' = IF r.threw THEN listenerIndex ELSE listenerId
          /\ scopes' = IF r.threw THEN scopes
                       ELSE [k \in DOMAIN scopes \cup {listenerId} |->
                               IF k = listenerId THEN eventNames
                               ELSE scopes[k]]
    /\ UNCHANGED <<devTool, stackVars, pubCount, pending, unknown, nested,
                   registered, hookCount, taskObs, doneCount, removed,
                   registryVars, otherVars, heap>>

\* Faulty variant: the listeners of all the buses are kept in one Map of
\* the module, so the id is deleted wherever it is.
Unsubscribe_SharedMap(id) ==
    /\ CallerRuns
    /\ LET r == unsubscribe(bus, id)
       IN /\ bus' = r.this
          /\ removed' = IF r.result THEN removed \cup {id} ELSE removed
          /\ scopes' = [k \in DOMAIN scopes \ {id} |-> scopes[k]]
    /\ others' = [b \in DOMAIN others |-> unsubscribe(others[b], id).this]
    /\ UNCHANGED <<devTool, listenerIndex, stackVars, pubCount, pending,
                   unknown, nested, registered, hookCount, taskObs, doneCount,
                   registryVars, issuedElsewhere, heap>>

\* unsubscribe(id) called on `bus`.
Unsubscribe(id) ==
    /\ CallerRuns
    /\ LET r == unsubscribe(bus, id)
       IN /\ bus' = r.this
          /\ removed' = IF r.result THEN removed \cup {id} ELSE removed
          /\ scopes' = [k \in DOMAIN scopes \ {id} |-> scopes[k]]
    /\ UNCHANGED <<devTool, listenerIndex, stackVars, pubCount, pending,
                   unknown, nested, registered, hookCount, taskObs, doneCount,
                   registryVars, otherVars, heap>>

\* The caller of subscribe(listener, eventNames) writes to the array it
\* passed: accurateListener reads that same array at every event.
CallerWritesEventNames(id, eventNames) ==
    /\ CallerRuns
    /\ id \in DOMAIN bus._listeners
    /\ bus' = [bus EXCEPT !._listeners[id].eventNames = eventNames]
    /\ UNCHANGED <<devTool, listenerIndex, stackVars, pubCount, pending,
                   unknown, nested, registered, hookCount, taskObs, doneCount,
                   subObs, registryVars, otherVars, heap>>

\* setEventBusDevTool(devTool): Object.assign(eventBusDevTool, devTool)
SetEventBusDevTool(partial) ==
    /\ CallerRuns
    /\ devTool' = [k \in DOMAIN devTool |->
                      IF k \in DOMAIN partial THEN partial[k] ELSE devTool[k]]
    /\ UNCHANGED <<bus, listenerIndex, stackVars, pubCount, pending, unknown,
                   nested, registered, hookCount, taskObs, doneCount, subObs,
                   registryVars, otherVars, heap>>

\* createEventBus(config): the name defaults to generateEventBusName(), the
\* default being evaluated only when config.name is undefined.  The
\* instances are numbered in the order of their construction; eventBuses
\* never loses a key, so its size is the number constructed.
CreateEventBus(configName) ==
    /\ CallerRuns
    /\ LET generate == configName = Undefined
           name == IF generate THEN GeneratedName(busNameIndex + 1)
                   ELSE configName
           r == createEventBus(eventBuses, devTool,
                               Cardinality(DOMAIN eventBuses), name)
       IN /\ busNameIndex' = IF generate THEN busNameIndex + 1
                             ELSE busNameIndex
          /\ eventBuses' = r.eventBuses
          /\ onCreateCount' = IF r.notified THEN onCreateCount + 1
                              ELSE onCreateCount
          /\ created' = IF r.threw THEN created ELSE created \cup {name}
          /\ RecordArg(IF r.threw THEN "createEventBus:threw"
                       ELSE "createEventBus", <<name>>)
    /\ UNCHANGED <<busVars, stackVars, pubCount, pending, unknown, nested,
                   registered, hookCount, taskObs, doneCount, subObs,
                   otherVars, heap>>

\* bus.publish resolves to EventBusImpl.prototype.publish unless
\* registerEvent has attached an own property of that name.
PublishIsMethod(this) == STR_publish \notin DOMAIN this.props

\* publish(eventName, data), up to the call of eventDispatcher().  The
\* payload of the k-th call of a behaviour is heap[k], and the task holds
\* the reference k to it.
PublishData(eventName, value) ==
    /\ CallerRuns
    /\ PublishIsMethod(bus)
    /\ LET data == pubCount + 1
           task == [eventName |-> eventName, data |-> data]
       IN /\ bus' = QueuePush(bus, task)
          /\ pubCount' = data
          /\ pending' = [k \in DOMAIN pending \cup {data} |->
                            IF k = data THEN eventName ELSE pending[k]]
          /\ unknown' = IF isEventPresent(bus, eventName) THEN unknown
                        ELSE unknown \cup {data}
          /\ heap' = [k \in DOMAIN heap \cup {data} |->
                         IF k = data THEN value ELSE heap[k]]
          /\ IF IsFirstInQuery(bus)
             THEN pc' = "task" /\ run' = task /\ nested' = 0
             ELSE nested' = nested + 1 /\ UNCHANGED <<pc, run>>
    /\ UNCHANGED <<devTool, listenerIndex, visited, ret, registered, hookCount,
                   taskObs, doneCount, subObs, registryVars, otherVars>>

\* publish(eventName, k) with a number.
Publish(eventName) == PublishData(eventName, NumberValue)

\* bus.publish(...) once registerEvent('') has replaced it by the dispatcher
\* of '': (data) => this.publish('', data) calls itself until the stack
\* overflows, and the RangeError reaches the caller.
PublishShadowed ==
    /\ CallerRuns
    /\ ~PublishIsMethod(bus)
    /\ UNCHANGED <<busVars, stackVars, pubCount, pending, unknown, nested,
                   registered, hookCount, taskObs, doneCount, subObs,
                   registryVars, otherVars, heap>>

\* What (listener) => { this.subscribe(listener, [eventName]); } returns:
\* the arrow function has a block body without a return statement, so the
\* handle subscribe returns is dropped and the call returns undefined.
SubscriberMacroReturn(handle) == NoValue

\* bus[key](listener) for a property registerEvent attached under a
\* subscriberMacroName: (listener) => { this.subscribe(listener, [eventName]) }
SubscriberMacro(key) ==
    /\ key \in DOMAIN bus.props
    /\ bus.props[key].macro = "subscribe"
    /\ Subscribe(<<bus.props[key].eventName>>)

\* bus[key](data) for a property registerEvent attached under a
\* dispatcherMacroName: (data) => this.publish(eventName, data)
DispatcherMacro(key) ==
    /\ key \in DOMAIN bus.props
    /\ bus.props[key].macro = "publish"
    /\ IF PublishIsMethod(bus)
       THEN Publish(bus.props[key].eventName)
       ELSE PublishShadowed /\ UNCHANGED ret

(***************************************************************************)
(* The delivery task (eventDispatcher).                                     *)
(***************************************************************************)
\* An exception leaves the task: nothing on the stack catches it (a callback
\* runs only while the queue is not empty, so its publish calls never run a
\* task), and it reaches the caller of the outermost publish.
Abort ==
    /\ pc' = "idle"
    /\ run' = NoTask
    /\ visited' = 0

\* The body up to forEach: deepFreeze(data) if asked for, build the event,
\* eventBusDevTool.onEvent(event).
RunTask ==
    /\ pc = "task"
    /\ heap' = IF FreezesPayload(bus, heap[run.data])
               THEN [heap EXCEPT ![run.data] = deepFreeze(@)]
               ELSE heap
    /\ hookCount' = hookCount + 1
    /\ atStart' = DOMAIN bus._listeners
    /\ calls' = <<>>
    /\ errors' = <<>>
    /\ IF devTool.onEvent = "throws"
       THEN Abort
       ELSE /\ pc' = "forEach"
            /\ visited' = 0
            /\ UNCHANGED run
    /\ UNCHANGED <<busVars, pubCount, pending, unknown, nested, ret,
                   registered, doneCount, subObs, registryVars, otherVars>>

\* forEach visits the next entry and calls the function stored there.
VisitListener ==
    /\ pc = "forEach"
    /\ NextEntry(bus, visited) # 0
    /\ LET id == NextEntry(bus, visited)
           event == MakeEvent(bus, run)
       IN /\ visited' = id
          /\ IF CallsListener(bus._listeners[id], event)
             THEN /\ pc' = "listener"
                  /\ calls' = Append(calls, [id |-> id, event |-> event])
             ELSE UNCHANGED <<pc, calls>>
    /\ UNCHANGED <<busVars, run, pubCount, pending, unknown, nested, ret,
                   registered, hookCount, atStart, errors, doneCount, subObs,
                   registryVars, otherVars, heap>>

\* The callback returns.
ListenerReturn ==
    /\ pc = "listener"
    /\ pc' = "forEach"
    /\ UNCHANGED <<busVars, run, visited, pubCount, pending, unknown, nested,
                   ret, registered, hookCount, taskObs, doneCount, subObs,
                   registryVars, otherVars, heap>>

\* The callback throws: catch (reason) { onEventListenerError({...event,
\* reason}) }.  The reason is named after the listener that threw.
ListenerThrow ==
    /\ pc = "listener"
    /\ LET event == MakeEvent(bus, run)
       IN errors' = Append(errors,
              [eventBusName |-> event.eventBusName,
               eventName |-> event.eventName,
               data |-> event.data,
               reason |-> visited])
    /\ IF devTool.onEventListenerError = "throws"
       THEN Abort
       ELSE /\ pc' = "forEach"
            /\ UNCHANGED <<run, visited>>
    /\ UNCHANGED <<busVars, pubCount, pending, unknown, nested, ret,
                   registered, hookCount, atStart, calls, doneCount, subObs,
                   registryVars, otherVars, heap>>

\* forEach is over: this._queue.shift(), then the next task if there is one.
FinishTask ==
    /\ pc = "forEach"
    /\ NextEntry(bus, visited) = 0
    /\ LET shifted == QueueShift(bus)
           shiftedOut == IF bus._queue = <<>> THEN 0 ELSE bus._queue[1].data
       IN /\ bus' = shifted
          /\ doneCount' = doneCount + 1
          /\ pending' = [k \in DOMAIN pending \ {shiftedOut} |-> pending[k]]
          /\ unknown' = unknown \ {shiftedOut}
          /\ heap' = [k \in DOMAIN heap \ {shiftedOut} |-> heap[k]]
          /\ IF HasNext(shifted)
             THEN run' = shifted._queue[1] /\ pc' = "task"
             ELSE run' = NoTask /\ pc' = "idle"
    /\ visited' = 0
    /\ atStart' = {}
    /\ calls' = <<>>
    /\ errors' = <<>>
    /\ UNCHANGED <<devTool, listenerIndex, pubCount, nested, ret, registered,
                   hookCount, subObs, registryVars, otherVars>>

(***************************************************************************)
(* The other buses.  They are instances of the same class, so a call of a   *)
(* method on others[b] is the method's operator applied to that instance;   *)
(* generateEventBusListenerId is one generator for all the buses.  A        *)
(* delivery task of another bus is at the head of its queue while its       *)
(* fan-out runs, and its callbacks call the API of any bus.                 *)
(***************************************************************************)
OtherFrame ==
    UNCHANGED <<bus, devTool, stackVars, pubCount, pending, unknown, nested,
                ret, registered, hookCount, taskObs, doneCount, subObs,
                registryVars, heap>>

OtherRegisterEvent(b, eventName) ==
    /\ CallerRuns
    /\ others' = [others EXCEPT ![b] = registerEvent(@, eventName).this]
    /\ UNCHANGED <<listenerIndex, issuedElsewhere>>
    /\ OtherFrame

OtherLock(b) ==
    /\ CallerRuns
    /\ others' = [others EXCEPT ![b] = lock(@)]
    /\ UNCHANGED <<listenerIndex, issuedElsewhere>>
    /\ OtherFrame

OtherSubscribe(b, eventNames) ==
    /\ CallerRuns
    /\ LET listenerId == listenerIndex + 1
           r == subscribe(others[b], listenerId, eventNames)
       IN /\ others' = [others EXCEPT ![b] = r.this]
          /\ listenerIndex' = IF r.threw THEN listenerIndex ELSE listenerId
          /\ issuedElsewhere' = IF r.threw THEN issuedElsewhere
                                ELSE issuedElsewhere \cup {listenerId}
    /\ OtherFrame

OtherUnsubscribe(b, id) ==
    /\ CallerRuns
    /\ others' = [others EXCEPT ![b] = unsubscribe(@, id).this]
    /\ UNCHANGED <<listenerIndex, issuedElsewhere>>
    /\ OtherFrame

\* others[b].publish(eventName, data): the task is pushed; when it is the
\* first, its fan-out starts, and it ends in OtherFinishTask.  The first
\* task is published by a caller outside the callbacks of `bus`; the
\* callbacks of its fan-out call the API of `bus` and of the other buses.
OtherPublish(b, eventName) ==
    /\ CallerRuns
    /\ IsFirstInQuery(others[b]) => pc = "idle"
    /\ others' = [others EXCEPT ![b] =
                     QueuePush(@, [eventName |-> eventName, data |-> 0])]
    /\ UNCHANGED <<listenerIndex, issuedElsewhere>>
    /\ OtherFrame

\* The fan-out of the task at the head of others[b]._queue is over: every
\* publish call its callbacks made on `bus` has returned.
OtherFinishTask(b) ==
    /\ pc = "idle"
    /\ HasNext(others[b])
    /\ others' = [others EXCEPT ![b] = QueueShift(@)]
    /\ UNCHANGED <<listenerIndex, issuedElsewhere>>
    /\ OtherFrame

(***************************************************************************)
(* Spec: one bus with the default DevTool hooks; callers and callbacks      *)
(* register the names they publish, subscribe, unsubscribe and publish.     *)
(***************************************************************************)
Next ==
    \/ \E eventName \in PublishNames :
          RegisterEvent(eventName) /\ UNCHANGED ret
    \/ \E eventNames \in ScopeArrays :
          /\ listenerIndex < MaxListeners
          /\ Subscribe(eventNames) /\ UNCHANGED ret
    \/ \E id \in 1..MaxListeners : Unsubscribe(id) /\ UNCHANGED ret
    \/ \E eventName \in PublishNames :
          pubCount < MaxPublish /\ Publish(eventName)
    \/ RunTask
    \/ VisitListener
    \/ ListenerReturn
    \/ ListenerThrow
    \/ FinishTask

Spec == Init /\ [][Next]_vars

(***************************************************************************)
(* SpecApi: registration and locking.  Callers pass every name of           *)
(* EventNames to registerEvent, and the outcome of each call is recorded.   *)
(***************************************************************************)

NextApi ==
    \/ \E eventName \in EventNames :
          LET r == registerEvent(bus, eventName)
          IN /\ r.threw \/ Len(registered) < MaxEvents
             /\ RegisterEvent(eventName)
             /\ Record(IF r.threw THEN "registerEvent:threw"
                       ELSE "registerEvent")
    \/ Lock /\ Record("lock")
    \/ \E eventNames \in ScopeArrays :
          LET r == subscribe(bus, listenerIndex + 1, eventNames)
          IN /\ r.threw \/ listenerIndex < ApiMaxListeners
             /\ Subscribe(eventNames)
             /\ IF r.threw THEN Record("subscribe:threw")
                ELSE RecordValue("subscribe", <<>>,
                                 SubscribeHandle(listenerIndex'))
    \/ \E id \in 1..ApiMaxListeners :
          /\ Unsubscribe(id)
          /\ Record(IF unsubscribe(bus, id).result THEN "unsubscribe:true"
                    ELSE "unsubscribe:false")
    \/ \E eventName \in PublishNames :
          pubCount < ApiMaxPublish /\ Publish(eventName)
    \/ PublishShadowed /\ Record("publish:threw")
    \/ RunTask
    \/ VisitListener
    \/ ListenerReturn
    \/ ListenerThrow
    \/ FinishTask

SpecApi == Init /\ [][NextApi]_vars

(***************************************************************************)
(* SpecDevTool: the hooks are replaced through setEventBusDevTool, by       *)
(* functions that return or by functions that throw.  No event is           *)
(* registered, so listeners subscribe to all events.                        *)
(***************************************************************************)
NextDevTool ==
    \/ \E partial \in DevToolPartials :
          SetEventBusDevTool(partial) /\ UNCHANGED ret
    \/ /\ listenerIndex < MaxListeners
       /\ Subscribe(<<>>) /\ UNCHANGED ret
    \/ \E id \in 1..MaxListeners : Unsubscribe(id) /\ UNCHANGED ret
    \/ \E eventName \in PublishNames :
          pubCount < MaxPublish /\ Publish(eventName)
    \/ RunTask
    \/ VisitListener
    \/ ListenerReturn
    \/ ListenerThrow
    \/ FinishTask

SpecDevTool == Init /\ [][NextDevTool]_vars

(***************************************************************************)
(* SpecNames: registration of every name of EventNames, the argument of     *)
(* each call recorded, and calls of the accessors registerEvent attaches.   *)
(***************************************************************************)
\* The accessor names a caller may try: those of the names in EventNames.
AccessorKeys ==
    UNION { {subscriberMacroName(e), dispatcherMacroName(e)} :
            e \in EventNames }

NextNames ==
    \/ \E eventName \in EventNames :
          LET r == registerEvent(bus, eventName)
          IN /\ r.threw \/ Len(registered) < MaxEvents
             /\ RegisterEvent(eventName)
             /\ RecordArg(IF r.threw THEN "registerEvent:threw"
                          ELSE "registerEvent", eventName)
    \/ \E key \in AccessorKeys :
          /\ listenerIndex < ApiMaxListeners
          /\ SubscriberMacro(key)
          /\ RecordValue("subscriberMacro", key,
                SubscriberMacroReturn(SubscribeHandle(listenerIndex')))
    \/ \E key \in AccessorKeys :
          pubCount < ApiMaxPublish /\ DispatcherMacro(key)
    \/ RunTask
    \/ VisitListener
    \/ ListenerReturn
    \/ ListenerThrow
    \/ FinishTask

SpecNames == Init /\ [][NextNames]_vars

(***************************************************************************)
(* SpecAlias: as Spec with one listener and one publication, and callers    *)
(* that go on writing to the eventNames array they gave to subscribe.       *)
(***************************************************************************)
NextAlias ==
    \/ \E eventName \in PublishNames :
          RegisterEvent(eventName) /\ UNCHANGED ret
    \/ \E eventNames \in ScopeArrays :
          /\ listenerIndex < ApiMaxListeners
          /\ Subscribe(eventNames) /\ UNCHANGED ret
    \/ \E id \in 1..ApiMaxListeners, eventNames \in ScopeArrays :
          CallerWritesEventNames(id, eventNames) /\ UNCHANGED ret
    \/ \E eventName \in PublishNames :
          pubCount < ApiMaxPublish /\ Publish(eventName)
    \/ RunTask
    \/ VisitListener
    \/ ListenerReturn
    \/ ListenerThrow
    \/ FinishTask

SpecAlias == Init /\ [][NextAlias]_vars

(***************************************************************************)
(* SpecRegistry: buses are created, with and without a name, while the      *)
(* onCreate hook is replaced and the first bus is registered on, locked     *)
(* and subscribed to.                                                       *)
(***************************************************************************)
\* The Partial<EventBusDevTool> objects that replace onCreate.
OnCreatePartials == [{"onCreate"} -> HookBehaviours]

NextRegistry ==
    \/ \E configName \in ExplicitNames \cup {Undefined} :
          /\ \/ Cardinality(DOMAIN eventBuses) < MaxBuses
             \/ configName \in DOMAIN eventBuses
          /\ CreateEventBus(configName)
    \/ \E partial \in OnCreatePartials :
          SetEventBusDevTool(partial) /\ Record("setEventBusDevTool")
    \/ \E eventName \in PublishNames :
          /\ RegisterEvent(eventName)
          /\ Record(IF registerEvent(bus, eventName).threw
                    THEN "registerEvent:threw" ELSE "registerEvent")
    \/ Lock /\ Record("lock")
    \/ /\ listenerIndex < ApiMaxListeners
       /\ Subscribe(<<>>) /\ Record("subscribe")

SpecRegistry == Init /\ [][NextRegistry]_vars

(***************************************************************************)
(* SpecFreeze: a bus created with or without isImmutabilityEnabled, to      *)
(* which callers and callbacks publish the values of Payloads.              *)
(***************************************************************************)
InitFreeze ==
    \E isImmutabilityEnabled \in BOOLEAN :
        InitWith(EventBusImpl(BusName, isImmutabilityEnabled))

NextFreeze ==
    \/ /\ listenerIndex < MaxListeners
       /\ Subscribe(<<>>) /\ UNCHANGED ret
    \/ \E value \in Payloads :
          pubCount < ApiMaxPublish + 1 /\ PublishData(<<"a">>, value)
    \/ RunTask
    \/ VisitListener
    \/ ListenerReturn
    \/ ListenerThrow
    \/ FinishTask

SpecFreeze == InitFreeze /\ [][NextFreeze]_vars

(***************************************************************************)
(* SpecOrder: one more listener than in Spec and a single event name, for   *)
(* the order in which one fan-out visits the listeners.                     *)
(***************************************************************************)
NextOrder ==
    \/ /\ listenerIndex < MaxListeners + 1
       /\ Subscribe(<<>>) /\ UNCHANGED ret
    \/ \E id \in 1..(MaxListeners + 1) : Unsubscribe(id) /\ UNCHANGED ret
    \/ pubCount < ApiMaxPublish /\ Publish(<<"a">>)
    \/ RunTask
    \/ VisitListener
    \/ ListenerReturn
    \/ ListenerThrow
    \/ FinishTask

SpecOrder == Init /\ [][NextOrder]_vars

(***************************************************************************)
(* SpecBuses: two buses, B1 and B2, operated by the same callers and        *)
(* callbacks, which return; the unsubscribe calls on B1 are recorded in     *)
(* ret.                                                                    *)
(***************************************************************************)
OtherBusName == "B2"

InitBuses2 == InitBuses(EventBusImpl(BusName, FALSE),
                        <<EventBusImpl(OtherBusName, FALSE)>>)

NextBuses ==
    \/ RegisterEvent(<<"a">>) /\ UNCHANGED ret
    \/ Lock /\ UNCHANGED ret
    \/ /\ listenerIndex < MaxListeners
       /\ Subscribe(<<>>) /\ UNCHANGED ret
    \/ \E id \in 1..MaxListeners :
          /\ Unsubscribe(id)
          /\ RecordArg(IF unsubscribe(bus, id).result THEN "unsubscribe:true"
                       ELSE "unsubscribe:false", <<id>>)
    \/ pubCount < ApiMaxPublish /\ Publish(<<"a">>)
    \/ RunTask
    \/ VisitListener
    \/ ListenerReturn
    \/ FinishTask
    \/ \E b \in DOMAIN others :
          \/ OtherRegisterEvent(b, <<"a">>)
          \/ OtherLock(b)
          \/ /\ listenerIndex < MaxListeners
             /\ OtherSubscribe(b, <<>>)
          \/ \E id \in 1..MaxListeners : OtherUnsubscribe(b, id)
          \/ /\ Len(others[b]._queue) < ApiMaxPublish
             /\ OtherPublish(b, <<"a">>)
          \/ OtherFinishTask(b)

SpecBuses == InitBuses2 /\ [][NextBuses]_vars

(***************************************************************************)
(* Properties.                                                              *)
(***************************************************************************)
Range(seq) == {seq[i] : i \in DOMAIN seq}

Delivering == pc \in {"forEach", "listener"}

\* C1: the delivery tasks start in the order of the publish calls, also for
\* publish calls made by callbacks: the k-th task to start is the task of
\* the k-th publish call (which published k), and every callback invocation
\* made since that start is for the k-th call, so the invocations for an
\* earlier call all precede those for a later one.
C1_PublishOrder ==
    /\ pc # "idle" => run.data = (IF pc = "task" THEN hookCount + 1
                                  ELSE hookCount)
    /\ \A i \in DOMAIN calls : calls[i].event.data = hookCount
    /\ \A i \in DOMAIN bus._queue :
          bus._queue[i].data = bus._queue[1].data + i - 1

\* The second task is in a callback while the third, published by a
\* callback, waits behind it.
C1_Witness ==
    /\ pc = "listener"
    /\ run.data = 2
    /\ Len(bus._queue) = 2
    /\ bus._queue[2].data = 3
    /\ nested = 2

\* C2: one task at a time fans out, and it is the head of the queue: while
\* a task runs, it is the first element of the queue, every task before it
\* has finished its fan-out (shifted the queue) and no task after it has
\* notified onEvent or invoked a callback; a callback runs only while the
\* queue is not empty, so its publish calls only enqueue.
C2_OneTaskAtATime ==
    /\ pc # "idle" => bus._queue # <<>> /\ run = bus._queue[1]
    /\ Delivering => hookCount = doneCount + 1
    /\ ~Delivering => hookCount = doneCount
    /\ \A i \in DOMAIN calls : calls[i].event.data = run.data

\* A callback invoked for the first publication has published a second one,
\* and the fan-out of the first still has a listener to visit.
C2_Witness ==
    /\ pc = "listener"
    /\ run.data = 1
    /\ Len(bus._queue) = 2
    /\ visited = 1
    /\ 2 \in DOMAIN bus._listeners

\* C3: a callback that throws is caught for that listener alone: the
\* onEventListenerError hook is notified once with the event's fields and
\* the reason, and the task goes on with its forEach (the other listeners,
\* then the queue), so nothing is raised to the caller of publish.
C3_ListenerErrorIsolated ==
    [][(pc = "listener" /\ errors' # errors) =>
          /\ pc' = "forEach"
          /\ run' = run
          /\ bus' = bus
          /\ errors' = Append(errors,
                [eventBusName |-> bus.name,
                 eventName |-> run.eventName,
                 data |-> run.data,
                 reason |-> visited])]_vars

\* C4: a publish call made while the queue is empty runs its task inside
\* the call, and when that outermost call has returned (no call is
\* executing) the queue is empty and every publication made so far, those
\* of callbacks included, has been started once and completed once: the
\* k-th queue.shift() removes the task of the k-th publish call.  The
\* hooks are the default ones, which do not throw.
C4_DrainsBeforeReturn ==
    /\ [](pc = "idle" =>
            /\ bus._queue = <<>>
            /\ pending = <<>>
            /\ hookCount = pubCount
            /\ doneCount = pubCount)
    /\ [][/\ (pubCount' # pubCount /\ bus._queue = <<>>) =>
                (pc' = "task" /\ run'.data = pubCount')
          /\ doneCount' # doneCount =>
                (/\ doneCount' = doneCount + 1
                 /\ bus._queue # <<>>
                 /\ bus._queue[1].data = doneCount')]_vars

\* The outermost publish call has returned after the tasks of two publish
\* calls made by callbacks were drained.
C4_Witness ==
    /\ pc = "idle"
    /\ nested = 2
    /\ doneCount = 3
    /\ bus._queue = <<>>

\* Whether the eventNames given to subscribe admit the event name: none
\* given, or the name is one of them.
InScope(eventNames, eventName) ==
    eventNames = <<>> \/ eventName \in Range(eventNames)

\* C5: when the forEach of a task for event name e reaches a listener, its
\* callback is invoked if and only if it was subscribed with no event names
\* or e is one of its event names.
C5_ScopeFilter ==
    [][(pc = "forEach" /\ visited' > visited) =>
          LET entry == bus._listeners[visited']
              invoked == /\ pc' = "listener"
                         /\ Len(calls') = Len(calls) + 1
                         /\ calls'[Len(calls')].id = visited'
              skipped == pc' = "forEach" /\ calls' = calls
          IN IF InScope(entry.eventNames, pending[run.data])
             THEN invoked
             ELSE skipped]_vars

\* A task for event A has skipped listener 1, subscribed to [a], and has
\* invoked listener 2, subscribed to [A, a].
C5_Witness ==
    /\ pc = "listener"
    /\ run.eventName = <<"A">>
    /\ visited = 2
    /\ 1 \in DOMAIN bus._listeners
    /\ bus._listeners[1].eventNames = << <<"a">> >>
    /\ bus._listeners[2].eventNames = << <<"A">>, <<"a">> >>
    /\ Len(calls) = 1
    /\ calls[1].id = 2

\* C6: in the task of the k-th publish call, publish(A, k), every callback
\* invocation passes the event {eventBusName: the bus's name, eventName: A,
\* data: k}, no listener id is invoked twice, and when the forEach is over
\* every listener id that was registered when the task started, still is,
\* and admits A has been invoked.
C6_ExactlyOnce ==
    /\ \A i \in DOMAIN calls :
          /\ hookCount \in DOMAIN pending
          /\ calls[i].event = [eventBusName |-> bus.name,
                               eventName |-> pending[hookCount],
                               data |-> hookCount]
    /\ \A i, j \in DOMAIN calls : calls[i].id = calls[j].id => i = j
    /\ (pc = "forEach" /\ \A id \in DOMAIN bus._listeners : id <= visited) =>
          \A id \in atStart \cap DOMAIN bus._listeners :
             InScope(bus._listeners[id].eventNames, pending[hookCount]) =>
                \E i \in DOMAIN calls : calls[i].id = id

\* The forEach of the second publication, made by a callback, is over and
\* has invoked both listeners, while a third publication waits.
C6_Witness ==
    /\ pc = "forEach"
    /\ run.data = 2
    /\ nested = 2
    /\ visited = 2
    /\ atStart = {1, 2}
    /\ Len(calls) = 2

IsPrefix(s, t) == Len(s) <= Len(t) /\ SubSeq(t, 1, Len(s)) = s

NoDuplicates(seq) == \A i, j \in DOMAIN seq : seq[i] = seq[j] => i = j

\* A step in which a call recorded in ret is made.
Called(outcome) == ret' # ret /\ ret'.outcome = outcome

\* C7: supportEvents is the sequence of the names of the registerEvent
\* calls that returned, in call order and without duplicates, and no step
\* removes or reorders a name: supportEvents only grows at its end.
C7_SupportEvents ==
    /\ [](supportEvents(bus) = registered /\ NoDuplicates(supportEvents(bus)))
    /\ [][IsPrefix(supportEvents(bus), supportEvents(bus'))]_vars

\* Two names were registered, then the bus was locked, a listener
\* subscribed and a publication was delivered.
C7_Witness ==
    /\ Len(supportEvents(bus)) = 2
    /\ isLocked(bus)
    /\ bus._listeners # <<>>
    /\ doneCount = 1
    /\ pc = "idle"

\* C8: registerEvent with a name already in supportEvents, or with any name
\* on a locked bus, throws and returns the instance as it was; a call that
\* returns is made on an unlocked bus with a new name; and a registerEvent
\* call that throws changes nothing of the bus (events, lock flag,
\* listeners, queue, accessors).
C8_FailedRegisterEvent ==
    /\ [](\A eventName \in EventNames :
            (isLocked(bus) \/ eventName \in Range(supportEvents(bus))) =>
                /\ registerEvent(bus, eventName).threw
                /\ registerEvent(bus, eventName).this = bus)
    /\ [][/\ registered' # registered =>
                /\ ~isLocked(bus)
                /\ registered'[Len(registered')]
                      \notin Range(supportEvents(bus))
          /\ Called("registerEvent:threw") =>
                /\ bus' = bus
                /\ registered' = registered
                /\ UNCHANGED <<devTool, listenerIndex, stackVars>>]_vars

\* A registerEvent call has just thrown on a locked bus that holds an
\* event, a listener and a queued publication.
C8_Witness ==
    /\ ret.outcome = "registerEvent:threw"
    /\ isLocked(bus)
    /\ supportEvents(bus) # <<>>
    /\ bus._listeners # <<>>
    /\ bus._queue # <<>>

\* C9: isLocked is false on the new bus, a lock() call leaves it true (and
\* changes nothing when it was true already), and no step sets it back to
\* false.
C9_LockLatch ==
    /\ ~isLocked(bus)
    /\ [][/\ isLocked(bus) => isLocked(bus')
          /\ Called("lock") =>
                /\ isLocked(bus')
                /\ isLocked(bus) => bus' = bus]_vars

\* On a locked bus a callback is running and a registerEvent call has
\* thrown.
C9_Witness ==
    /\ isLocked(bus)
    /\ pc = "listener"
    /\ ret.outcome = "registerEvent:threw"

Unlocked(this) == [this EXCEPT !._isFrozen = FALSE]
Locked(this) == [this EXCEPT !._isFrozen = TRUE]

\* C10: a lock() call changes only the lock flag, and subscribe,
\* unsubscribe and the steps of publish do on the locked bus what they do
\* on the same bus unlocked: same result, same instance afterwards but for
\* the flag.
C10_LockFrame ==
    /\ [][Called("lock") =>
            /\ bus' = Locked(bus)
            /\ UNCHANGED <<devTool, listenerIndex, stackVars, pubCount,
                           pending, registered, hookCount, taskObs,
                           doneCount, subObs, registryVars, heap>>]_vars
    /\ [](LET L == Locked(bus)
              U == Unlocked(bus)
              id == listenerIndex + 1
              task == [eventName |-> <<"a">>, data |-> pubCount + 1]
          IN /\ \A eventNames \in ScopeArrays :
                   /\ subscribe(L, id, eventNames).threw
                         = subscribe(U, id, eventNames).threw
                   /\ subscribe(L, id, eventNames).this
                         = Locked(subscribe(U, id, eventNames).this)
             /\ \A k \in 1..(ApiMaxListeners + 1) :
                   /\ unsubscribe(L, k).result = unsubscribe(U, k).result
                   /\ unsubscribe(L, k).this = Locked(unsubscribe(U, k).this)
             /\ IsFirstInQuery(L) = IsFirstInQuery(U)
             /\ QueuePush(L, task) = Locked(QueuePush(U, task))
             /\ MakeEvent(L, task) = MakeEvent(U, task)
             /\ \A k \in 0..ApiMaxListeners : NextEntry(L, k) = NextEntry(U, k)
             /\ QueueShift(L) = Locked(QueueShift(U))
             /\ HasNext(L) = HasNext(U)
             /\ PublishIsMethod(L) = PublishIsMethod(U))

\* On a locked bus a subscribe call has returned and the listener's
\* callback is running for a publication.
C10_Witness ==
    /\ isLocked(bus)
    /\ ret.outcome = "subscribe"
    /\ pc = "listener"
    /\ visited = 1

\* The members of the interface EventBus.
PublicSurface ==
    { <<"n","a","m","e">>,
      <<"i","s","L","o","c","k","e","d">>,
      <<"s","u","p","p","o","r","t","E","v","e","n","t","s">>,
      <<"r","e","g","i","s","t","e","r","E","v","e","n","t">>,
      STR_publish,
      <<"s","u","b","s","c","r","i","b","e">>,
      <<"u","n","s","u","b","s","c","r","i","b","e">>,
      STR_lock }

\* The accessor names derived from a sequence of event names.
AccessorNames(events) ==
    UNION { {subscriberMacroName(events[i]), dispatcherMacroName(events[i])} :
            i \in DOMAIN events }

\* C11: on an unlocked bus, registerEvent with a member name of the public
\* surface, or with an accessor name derived from a name registered
\* earlier, throws and leaves the instance as it was; so does every such
\* call the callers make.
C11_ReservedNames ==
    /\ [](~isLocked(bus) =>
            \A n \in PublicSurface \cup AccessorNames(registered) :
                /\ registerEvent(bus, n).threw
                /\ registerEvent(bus, n).this = bus)
    /\ [][(/\ ret' # ret
           /\ ret'.outcome \in {"registerEvent", "registerEvent:threw"}
           /\ ret'.arg \in PublicSurface \cup AccessorNames(registered)) =>
              /\ ret'.outcome = "registerEvent:threw"
              /\ bus' = bus
              /\ registered' = registered]_vars

\* After registerEvent('a') returned, registerEvent('onA') has thrown on the
\* unlocked bus.
C11_Witness ==
    /\ ~isLocked(bus)
    /\ registered = << <<"a">> >>
    /\ ret.outcome = "registerEvent:threw"
    /\ ret.arg = <<"o", "n", "A">>

\* C12: for every registered event name e, the property under
\* dispatcherMacroName(e) is the dispatcher that publishes e and the
\* property under subscriberMacroName(e) is the function that subscribes
\* with [e].
C12_AccessorsBound ==
    \A i \in DOMAIN registered :
        LET e == registered[i]
        IN /\ dispatcherMacroName(e) \in DOMAIN bus.props
           /\ bus.props[dispatcherMacroName(e)]
                 = [macro |-> "publish", eventName |-> e]
           /\ subscriberMacroName(e) \in DOMAIN bus.props
           /\ bus.props[subscriberMacroName(e)]
                 = [macro |-> "subscribe", eventName |-> e]

\* C13: no property registerEvent attaches has the name of a member of the
\* public surface, so bus.publish and the other members stay the methods of
\* the class.
C13_SurfaceIntact ==
    /\ DOMAIN bus.props \cap PublicSurface = {}
    /\ PublishIsMethod(bus)

\* C14: subscribe with an eventNames array holding a name that is not in
\* supportEvents, at whatever position, throws and leaves the instance as it
\* was; a subscribe call that throws changes neither the listener map nor
\* anything else of the bus, and a call that returns was given registered
\* names only.
C14_SubscribeUnknown ==
    /\ [](\A eventNames \in ScopeArrays :
            (\E i \in DOMAIN eventNames :
                eventNames[i] \notin Range(supportEvents(bus))) =>
                /\ subscribe(bus, listenerIndex + 1, eventNames).threw
                /\ subscribe(bus, listenerIndex + 1, eventNames).this = bus)
    /\ [][/\ Called("subscribe:threw") =>
                /\ bus' = bus
                /\ UNCHANGED <<listenerIndex, subObs, stackVars>>
          /\ Called("subscribe") =>
                /\ DOMAIN bus'._listeners
                      = DOMAIN bus._listeners \cup {listenerIndex'}
                /\ Range(scopes'[listenerIndex'])
                      \subseteq Range(supportEvents(bus))]_vars

\* With A the only registered name and a listener in the map, a subscribe
\* call has thrown: its array was [a] or [A, a], the unknown name second.
C14_Witness ==
    /\ ret.outcome = "subscribe:threw"
    /\ supportEvents(bus) = << <<"A">> >>
    /\ DOMAIN bus._listeners = {1}
    /\ listenerIndex = 1

\* C15: unsubscribe(id) returns true exactly when id is in the listener
\* map; it then removes that entry and nothing else; otherwise it returns
\* false and changes nothing; a second unsubscribe of the same id returns
\* false.  A removed id is never in the map again, and every step that
\* removes a listener removes exactly one.
C15_Unsubscribe ==
    /\ [](\A id \in 1..(MaxListeners + 1) :
            LET r == unsubscribe(bus, id)
                again == unsubscribe(r.this, id)
            IN /\ r.result = (id \in DOMAIN bus._listeners)
               /\ DOMAIN r.this._listeners = DOMAIN bus._listeners \ {id}
               /\ \A k \in DOMAIN r.this._listeners :
                     r.this._listeners[k] = bus._listeners[k]
               /\ [r.this EXCEPT !._listeners = bus._listeners] = bus
               /\ ~r.result => r.this = bus
               /\ ~again.result
               /\ again.this = r.this)
    /\ [](removed \cap DOMAIN bus._listeners = {})
    /\ [][removed' # removed =>
            \E id \in DOMAIN bus._listeners :
                /\ removed' = removed \cup {id}
                /\ DOMAIN bus'._listeners = DOMAIN bus._listeners \ {id}
                /\ \A k \in DOMAIN bus'._listeners :
                      bus'._listeners[k] = bus._listeners[k]
                /\ [bus' EXCEPT !._listeners = bus._listeners] = bus]_vars

\* Of two listeners the first has been unsubscribed and the second is
\* still in the map.
C15_Witness ==
    /\ listenerIndex = 2
    /\ removed = {1}
    /\ DOMAIN bus._listeners = {2}

\* C16: no callback invocation is for a listener id whose unsubscribe has
\* returned true, and the forEach of a task does not visit such an id:
\* neither in a task published later, nor in a task that was queued, nor in
\* the task during which the listener was removed.
C16_NoCallAfterUnsubscribe ==
    [][/\ Len(calls') > Len(calls) => calls'[Len(calls')].id \notin removed
       /\ (visited' # visited /\ visited' # 0) => visited' \notin removed]_vars

\* A task started with listeners 1 and 2; the callback of listener 1 ran,
\* listener 2 was unsubscribed meanwhile, and the forEach is over without
\* having visited it, while another publication waits in the queue.
C16_Witness ==
    /\ pc = "forEach"
    /\ atStart = {1, 2}
    /\ removed = {2}
    /\ visited = 1
    /\ Len(calls) = 1
    /\ calls[1].id = 1
    /\ NextEntry(bus, visited) = 0
    /\ Len(bus._queue) = 2

\* C17: when the forEach of a task reaches a listener, its callback is
\* invoked if and only if the eventNames it was subscribed with (scopes)
\* admit the event name, whatever was registered or done since.
C17_ScopeFixed ==
    [][(pc = "forEach" /\ visited' > visited) =>
          ((pc' = "listener")
              <=> InScope(scopes[visited'], run.eventName))]_vars

\* C18: createEventBus with a name that is in the registry throws, calls
\* no onCreate hook and leaves the registry as it was; in every such call
\* the callers make, getEventBus of the name returns the instance it
\* returned before, and the first bus keeps its events, lock flag and
\* listeners.
C18_DuplicateName ==
    /\ [](\A name \in DOMAIN eventBuses :
            LET r == createEventBus(eventBuses, devTool,
                                    Cardinality(DOMAIN eventBuses), name)
            IN /\ r.threw
               /\ ~r.notified
               /\ r.eventBuses = eventBuses)
    /\ [][(/\ ret' # ret
           /\ ret'.outcome \in {"createEventBus", "createEventBus:threw"}
           /\ ret'.arg[1] \in DOMAIN eventBuses) =>
              /\ ret'.outcome = "createEventBus:threw"
              /\ onCreateCount' = onCreateCount
              /\ eventBuses' = eventBuses
              /\ getEventBus(eventBuses', ret'.arg[1])
                    = getEventBus(eventBuses, ret'.arg[1])
              /\ created' = created
              /\ bus' = bus]_vars

\* createEventBus({name: 'B1'}) has thrown after the first bus, B1, got an
\* event and a listener and was locked, and after a second bus was created.
C18_Witness ==
    /\ ret.outcome = "createEventBus:threw"
    /\ ret.arg = <<"B1">>
    /\ supportEvents(bus) # <<>>
    /\ isLocked(bus)
    /\ bus._listeners # <<>>
    /\ getEventBus(eventBuses, "B1") = 1
    /\ getEventBus(eventBuses, "B2") = 2

\* C19: isEventBusExist(n) is true exactly for the names n of the
\* createEventBus calls that returned; getEventBus of such a name returns
\* the same instance in every later state, and getEventBus of another name
\* returns undefined.
C19_RegistryMatchesCreated ==
    /\ [](\A n \in ExplicitNames \cup {GeneratedName(k) : k \in 1..MaxBuses} :
            /\ isEventBusExist(eventBuses, n) <=> n \in created
            /\ n \notin created => getEventBus(eventBuses, n) = 0)
    /\ [][\A n \in created :
            getEventBus(eventBuses', n) = getEventBus(eventBuses, n)]_vars

\* Object.isFrozen of a value and of every object reachable through its
\* properties.
RECURSIVE DeepFrozen(_)
DeepFrozen(value) ==
    /\ value.frozen
    /\ \A i \in DOMAIN value.props :
          value.props[i].kind = "object" => DeepFrozen(value.props[i])

\* C20: on a bus with isImmutabilityEnabled, once the task of a publication
\* whose payload is a non-null object (typeof 'object') has notified
\* onEvent, and so whenever one of its callbacks runs, the payload and the
\* objects nested in it are frozen; on a bus without it no step changes a
\* payload; and a payload that is a number, undefined or null is never
\* frozen.
C20_Immutability ==
    /\ [](Delivering =>
            ((bus.isImmutabilityEnabled /\ heap[run.data].kind = "object")
                => DeepFrozen(heap[run.data])))
    /\ [](\A k \in DOMAIN heap :
            heap[k].kind # "object" => ~heap[k].frozen)
    /\ [][/\ hookCount' # hookCount =>
               ((bus.isImmutabilityEnabled /\ heap[run.data].kind = "object")
                   => DeepFrozen(heap'[run.data]))
          /\ ~bus.isImmutabilityEnabled =>
               \A k \in DOMAIN heap \cap DOMAIN heap' : heap'[k] = heap[k]]_vars

\* On a bus with isImmutabilityEnabled a callback runs for a payload that
\* the caller had frozen without its nested object: both are frozen now.
C20_Witness ==
    /\ bus.isImmutabilityEnabled
    /\ pc = "listener"
    /\ heap[run.data] =
          Object(TRUE, <<NumberValue, Primitive("null"), Object(TRUE, <<>>)>>)

\* The task a publish call of the caller pushes for its k-th publication.
TaskOf(k) == [eventName |-> pending[k], data |-> k]

\* A step of forEach that visits a listener for a publication whose name
\* was not registered when publish was called.
VisitsForUnknown ==
    /\ pc = "forEach"
    /\ visited' > visited
    /\ run.data \in unknown

\* C21 as stated: publish(e, d) with e not in supportEvents adds nothing
\* to supportEvents and queues its task like any other, and that task
\* invokes every listener subscribed with no scope and no listener
\* subscribed with an explicit scope.
C21_UnregisteredAsStated ==
    [][/\ (pubCount' # pubCount /\ pubCount' \in unknown') =>
            /\ supportEvents(bus') = supportEvents(bus)
            /\ bus'._queue = Append(bus._queue, TaskOf(pubCount)')
       /\ VisitsForUnknown =>
            (Len(calls') > Len(calls) <=> scopes[visited'] = <<>>)]_vars

\* C21 amended: publish(e, d) with e not in supportEvents adds nothing to
\* supportEvents and queues its task like any other; each listener the
\* fan-out of that task reaches is invoked if and only if it was subscribed
\* with no scope or its event names contain e at that moment, which
\* happens when e was registered and the listener subscribed while the
\* task waited in the queue.
C21_UnregisteredPublish ==
    [][/\ (pubCount' # pubCount /\ pubCount' \in unknown') =>
            /\ supportEvents(bus') = supportEvents(bus)
            /\ bus'._queue = Append(bus._queue, TaskOf(pubCount)')
       /\ VisitsForUnknown =>
            /\ Len(calls') > Len(calls) <=>
                  \/ scopes[visited'] = <<>>
                  \/ run.eventName \in
                        Range(bus._listeners[visited'].eventNames)
            /\ (scopes[visited'] # <<>> /\ Len(calls') > Len(calls)) =>
                  isEventPresent(bus, run.eventName)]_vars

\* The task of an unregistered name has invoked a listener subscribed with
\* no scope and has passed one subscribed with a scope without invoking it.
C21_Witness ==
    /\ Delivering
    /\ run.data \in unknown
    /\ \E id \in DOMAIN scopes :
          /\ scopes[id] = <<>>
          /\ \E i \in DOMAIN calls : calls[i].id = id
    /\ \E id \in DOMAIN scopes :
          /\ id <= visited
          /\ scopes[id] # <<>>
          /\ \A i \in DOMAIN calls : calls[i].id # id

\* The entries of the listener map the running forEach has still to visit.
ToVisit == {k \in DOMAIN bus._listeners : k > visited}

\* C22: the fan-out of a delivery task terminates whatever the callbacks
\* subscribe, unsubscribe, register or lock: the entries it has still to
\* visit were all in the map when it started, so it makes at most as many
\* visits as there were listeners then, and the calls of the callbacks add
\* nothing to what is left to visit.
C22_FanOutTerminates ==
    /\ [](Delivering => ToVisit \subseteq atStart)
    /\ [][(Delivering /\ Delivering') => ToVisit' \subseteq ToVisit]_vars

\* C23: each publish call causes exactly one onEvent notification, made at
\* the start of its task before any callback is invoked for it and
\* carrying that call's event name, payload and bus name: the k-th
\* notification is for the k-th publish call, and when no publish call is
\* executing every call made so far has had its notification.
C23_OnEventPerPublish ==
    /\ [](pc = "idle" => hookCount = pubCount)
    /\ [][hookCount' # hookCount =>
            /\ hookCount' = hookCount + 1
            /\ hookCount' \in DOMAIN pending
            /\ MakeEvent(bus, run) = [eventBusName |-> bus.name,
                                      eventName |-> pending[hookCount'],
                                      data |-> hookCount']
            /\ calls' = <<>>]_vars

\* C24: calling the subscribe shortcut of a registered event e is
\* equivalent to subscribe(L, [e]): the call adds one listener with scope
\* [e] under a fresh id, and it returns the handle subscribe returns, which
\* carries that id, so that the listener can be removed again.
C24_ShortcutIsSubscribe ==
    [][Called("subscriberMacro") =>
          LET listenerId == listenerIndex + 1
          IN /\ listenerIndex' = listenerId
             /\ \A e \in Range(supportEvents(bus)) :
                   subscriberMacroName(e) = ret'.arg =>
                      bus' = subscribe(bus, listenerId, <<e>>).this
             /\ ret'.value = SubscribeHandle(listenerId)
             /\ unsubscribe(bus', ret'.value[1]).result]_vars

\* C25: whenever no publish call is executing, the queue of the bus is
\* empty, whatever the callbacks and the DevTool hooks do, hooks that throw
\* included: no task stays at the head of the queue, and every publish
\* call made when none is executing starts its own delivery task.
C25_QueueEmptyWhenIdle ==
    /\ [](pc = "idle" => bus._queue = <<>>)
    /\ [][(pc = "idle" /\ pubCount' # pubCount) =>
            (pc' = "task" /\ run'.data = pubCount')]_vars

\* The ids in the order in which a forEach that starts now and is not
\* disturbed would visit them.
RECURSIVE IterationFrom(_, _)
IterationFrom(this, last) ==
    LET id == NextEntry(this, last)
    IN IF id = 0 THEN <<>> ELSE <<id>> \o IterationFrom(this, id)

IterationOrder(this) == IterationFrom(this, 0)

RECURSIVE Without(_, _)
Without(seq, ids) ==
    IF seq = <<>> THEN <<>>
    ELSE IF Head(seq) \in ids THEN Without(Tail(seq), ids)
    ELSE <<Head(seq)>> \o Without(Tail(seq), ids)

\* C26: within one task the listeners are invoked one at a time in the
\* order of their subscribe calls (ids are issued in that order): a
\* subscribe call puts its listener last in the order of visit, an
\* unsubscribe call takes its listener out and leaves the others in the
\* order they had, and the invocations of a task are in ascending order.
C26_SubscriptionOrder ==
    /\ [](/\ \A i, j \in DOMAIN calls :
                i < j => calls[i].id < calls[j].id
          /\ pc = "listener" => calls[Len(calls)].id = visited)
    /\ [][/\ listenerIndex' # listenerIndex =>
                IterationOrder(bus') =
                   Append(IterationOrder(bus), listenerIndex')
          /\ removed' # removed =>
                IterationOrder(bus') =
                   Without(IterationOrder(bus), removed' \ removed)]_vars

\* The second of three listeners was unsubscribed, and the fan-out has
\* invoked the first and is in the callback of the third.
C26_Witness ==
    /\ pc = "listener"
    /\ removed = {2}
    /\ Len(calls) = 2
    /\ calls[1].id = 1
    /\ calls[2].id = 3

\* A step of `bus`: a call of its API (an unsubscribe call, which ret
\* records, or a call that changes the instance or queues a task) or a
\* step of one of its delivery tasks.
StepOfBus ==
    \/ ret' # ret
    \/ bus' # bus
    \/ pubCount' # pubCount
    \/ pc' # pc
    \/ visited' # visited

\* C27: the buses are independent: registerEvent, lock, subscribe,
\* unsubscribe and publish on one bus, and the steps of its delivery tasks,
\* leave the events, the lock, the listener map and the queue of every
\* other bus as they were; its tasks invoke no listener subscribed on
\* another bus; and unsubscribe on it with an id issued by another bus
\* returns false.
C27_BusesIndependent ==
    /\ [][StepOfBus => others' = others]_vars
    /\ [](\A i \in DOMAIN calls : calls[i].id \notin issuedElsewhere)
    /\ [](\A id \in issuedElsewhere : ~unsubscribe(bus, id).result)
    /\ [][Called("unsubscribe:true") =>
             ret'.arg[1] \notin issuedElsewhere]_vars

\* A callback of B1 has called B1.unsubscribe with the id of a listener of
\* B2, which is still subscribed there, while B2 is locked, has an event
\* registered and is in the middle of a delivery.
C27_Witness ==
    /\ pc = "listener"
    /\ ret.outcome = "unsubscribe:false"
    /\ ret.arg[1] \in DOMAIN others[1]._listeners
    /\ isLocked(others[1])
    /\ supportEvents(others[1]) = <<<<"a">>>>
    /\ others[1]._queue # <<>>
    /\ bus._listeners # <<>>

====
